---- MODULE Spec2Model ----
(***************************************************************************)
(* BotMjapi (src/bot/mjapi/bot_mjapi.py): the sequencing, batching, retry  *)
(* and 3-player translation protocol between the game engine and the       *)
(* remote MJAPI session.                                                   *)
(*                                                                         *)
(* A Python dict is a function from field names to values.  A value that   *)
(* is not a dict (None, a string) is a function with a py_* tag field.     *)
(* One public invocation (init_bot, react or react_batch) runs from        *)
(* pc = "idle" to pc = "done"; every attempt of a remote call (start_bot,  *)
(* act, batch) is one step, because the remote service decides between the *)
(* steps whether the attempt fails.                                        *)
(***************************************************************************)
EXTENDS Integers, Sequences, FiniteSets, TLC

\* ---- class constants (bot_mjapi.py:20-23)
batch_size == 24
retries == 3
bound == 256

\* ---- bounds of the model
\* react_batch lists have at most MaxChunks chunks
MaxChunks == 3
\* public calls are accepted while fewer than MaxSent Actions were transmitted
MaxSent == 262
\* the full event vocabulary is offered while fewer than MaxRich Actions were transmitted
MaxRich == 1

\* ---- Python values
NoneVal == [py_none |-> TRUE]
StrVal == [py_str |-> "ok"]
IsDict(v) == DOMAIN v \cap {"py_none", "py_str"} = {}
Put(m, k, v) == [x \in DOMAIN m \cup {k} |-> IF x = k THEN v ELSE m[x]]
Get(m, k) == IF k \in DOMAIN m THEN m[k] ELSE "None"
Min(a, b) == IF a < b THEN a ELSE b

\* ---- MjaiType / GameMode vocabulary
REACH == "reach"
START_KYOKU == "start_kyoku"
NUKIDORA == "nukidora"
KITA == "kita"
MJ4P == "MJ4P"
MJ3P == "MJ3P"
OtherMode == "MJ_OTHER"
NoMode == "None"
NoErr == "None"
KeyError == "KeyError"
Errors == {"timeout", "refused"}

mjapi_model_select_4p == "model_4p"
mjapi_model_select_3p == "model_3p"

\* a counter that never wraps
NextId_NoWrap(i) == i + 1

\* a counter that wraps one value too late
NextId_Wide(i) == (i + 1) % (bound + 1)

\* ---- SequenceCounter: self.id = (self.id + 1) % BotMjapi.bound
NextId(i) == (i + 1) % bound

\* a trim that keeps the last 3 entries
TrimTo3_Tail(m, k) ==
    IF k \in DOMAIN m /\ Len(m[k]) = 4 THEN Put(m, k, SubSeq(m[k], 2, 4)) ELSE m

\* ---- _preprocess_for_3p (never called by react or react_batch)
TrimTo3(m, k) ==
    IF k \in DOMAIN m /\ Len(m[k]) = 4 THEN Put(m, k, SubSeq(m[k], 1, 3)) ELSE m

preprocess_for_3p(mode, msg) ==
    IF mode # MJ3P THEN msg
    ELSE IF Get(msg, "type") = START_KYOKU
         THEN TrimTo3(TrimTo3(msg, "scores"), "tehais")
         ELSE msg

\* ---- react: the event handed to mjapi.act is input_msg itself
ActData(mode, input_msg) == input_msg

\* ---- _react_batch_impl, loop body: msg = original_msg.copy()
MsgCopy(original_msg) == [msg |-> original_msg, shared |-> FALSE]

\* 3-player rules of the loop body
Translate3p(mode, msg) ==
    IF mode = MJ3P
    THEN IF Get(msg, "type") = START_KYOKU
         THEN TrimTo3(TrimTo3(msg, "scores"), "tehais")
         ELSE IF Get(msg, "type") = NUKIDORA
              THEN Put(msg, "type", KITA)
              ELSE msg
    ELSE msg

\* an override that ignores can_act
NeedsOverride_Always(i, n, can_act) == i + 1 = n

\* if i + 1 == len(input_list) and not can_act: msg['can_act'] = False
NeedsOverride(i, n, can_act) == i + 1 = n /\ ~can_act

\* one iteration: the message sent and the caller's object afterwards
StampMsg(mode, original_msg, i, n, can_act) ==
    LET c == MsgCopy(original_msg)
        m1 == Translate3p(mode, c.msg)
        m2 == IF NeedsOverride(i, n, can_act) THEN Put(m1, "can_act", FALSE) ELSE m1
    IN [msg |-> m2, original |-> IF c.shared THEN m2 ELSE original_msg]

RECURSIVE StampLoop(_, _, _, _, _)
StampLoop(idv, mode, chunk, can_act, i) ==
    IF i = Len(chunk)
    THEN [id |-> idv, batch_data |-> <<>>, intact |-> TRUE]
    ELSE LET nid == NextId(idv)
             r == StampMsg(mode, chunk[i + 1], i, Len(chunk), can_act)
             rest == StampLoop(nid, mode, chunk, can_act, i + 1)
         IN [id |-> rest.id,
             batch_data |-> <<[seq |-> nid, data |-> r.msg]>> \o rest.batch_data,
             intact |-> rest.intact /\ r.original = chunk[i + 1]]

\* a slice one event too long
Chunk_Overlap(list, i) ==
    SubSeq(list, i * batch_size + 1, Min((i + 1) * batch_size + 1, Len(list)))

\* ---- react_batch: chunking
NumBatches(n) == (n - 1) \div batch_size + 1
\* range(0, len(input_list), batch_size) has a start after the i-th one
HasNextStart(i, n) == (i + 1) * batch_size < n
Chunk(list, i) == SubSeq(list, i * batch_size + 1, Min((i + 1) * batch_size, Len(list)))

\* ---- _process_reaction validity test
Valid(reaction) == IsDict(reaction) /\ "type" \in DOMAIN reaction
Normalize(reaction) == IF Valid(reaction) THEN reaction ELSE NoneVal

\* ---- the session (BotMjapi fields), the running invocation, and what was observed
VARIABLES
    id, ignore_next_turn_self_reach, current_mode, current_model_name, seat,
    pc, call, input_list, chunk_i, input_msg, recurse, old_id, err, attempt,
    batch_data, reaction,
    entry, wire, last_tx, last_fail, last_reply, ncalls, intact, result, prev_seq, sent

vars == <<id, ignore_next_turn_self_reach, current_mode, current_model_name, seat,
          pc, call, input_list, chunk_i, input_msg, recurse, old_id, err, attempt,
          batch_data, reaction,
          entry, wire, last_tx, last_fail, last_reply, ncalls, intact, result, prev_seq, sent>>

\* the part of the state the handlers of one invocation read and write
Self ==
    [id |-> id, flag |-> ignore_next_turn_self_reach, mode |-> current_mode, seat |-> seat,
     pc |-> pc, call |-> call, input_list |-> input_list, chunk_i |-> chunk_i,
     input_msg |-> input_msg, recurse |-> recurse, old_id |-> old_id, err |-> err,
     attempt |-> attempt, batch_data |-> batch_data, reaction |-> reaction,
     wire |-> wire, last_tx |-> last_tx, last_fail |-> last_fail,
     last_reply |-> last_reply, ncalls |-> ncalls, intact |-> intact,
     result |-> result, sent |-> sent]

Set(s) ==
    /\ id' = s.id
    /\ ignore_next_turn_self_reach' = s.flag
    /\ pc' = s.pc
    /\ call' = s.call
    /\ input_list' = s.input_list
    /\ chunk_i' = s.chunk_i
    /\ input_msg' = s.input_msg
    /\ recurse' = s.recurse
    /\ old_id' = s.old_id
    /\ err' = s.err
    /\ attempt' = s.attempt
    /\ batch_data' = s.batch_data
    /\ reaction' = s.reaction
    /\ wire' = s.wire
    /\ last_tx' = s.last_tx
    /\ last_fail' = s.last_fail
    /\ last_reply' = s.last_reply
    /\ ncalls' = s.ncalls
    /\ intact' = s.intact
    /\ result' = s.result
    /\ sent' = s.sent

NoResult == [kind |-> "none", value |-> NoneVal, error |-> NoErr]

\* the invocation is over: its frames are gone, its outcome is in result
Finish(s, res) ==
    [s EXCEPT !.pc = "done", !.result = res,
              !.chunk_i = 0, !.input_msg = NoneVal, !.recurse = TRUE, !.old_id = 0,
              !.err = NoErr, !.attempt = 0, !.batch_data = <<>>, !.reaction = NoneVal]

\* an exception leaves every frame of the invocation (no handler catches it)
Raise(s, e) == Finish(s, [kind |-> "raised", value |-> NoneVal, error |-> e])

\* ---- react, lines 230-240: the suppression check, then the advance
IsSelfReach(msg, st) == msg["type"] = REACH /\ msg["actor"] = st

Suppressed(flag, msg, st) == flag /\ IsSelfReach(msg, st)

\* no rollback
RolledBack_Kept(s) == s.id

\* a follow-up request that reuses the seq of the primary act
ReactEnter_ReusedSeq(s, msg, rec) ==
    IF s.flag /\ msg["type"] = REACH /\ msg["actor"] = s.seat
    THEN [returned |-> TRUE, s |-> s]
    ELSE [returned |-> FALSE,
          s |-> [s EXCEPT !.flag = FALSE, !.old_id = s.id,
                          !.id = IF rec THEN NextId(s.id) ELSE s.id,
                          !.err = NoErr, !.attempt = 0, !.input_msg = msg,
                          !.recurse = rec, !.last_tx = <<>>, !.last_reply = NoneVal,
                          !.ncalls = @ + 1, !.pc = "act"]]

\* a react that never resets the suppression flag
ReactEnter_KeepsFlag(s, msg, rec) ==
    IF s.flag /\ msg["type"] = REACH /\ msg["actor"] = s.seat
    THEN [returned |-> TRUE, s |-> s]
    ELSE [returned |-> FALSE,
          s |-> [s EXCEPT !.old_id = s.id, !.id = NextId(s.id),
                          !.err = NoErr, !.attempt = 0, !.input_msg = msg,
                          !.recurse = rec, !.last_tx = <<>>, !.last_reply = NoneVal,
                          !.ncalls = @ + 1, !.pc = "act"]]

\* a follow-up request that is itself allowed to recurse
ReactEnter_AlwaysRecurse(s, msg, rec) ==
    IF s.flag /\ msg["type"] = REACH /\ msg["actor"] = s.seat
    THEN [returned |-> TRUE, s |-> s]
    ELSE [returned |-> FALSE,
          s |-> [s EXCEPT !.flag = FALSE, !.old_id = s.id, !.id = NextId(s.id),
                          !.err = NoErr, !.attempt = 0, !.input_msg = msg,
                          !.recurse = TRUE, !.last_tx = <<>>, !.last_reply = NoneVal,
                          !.ncalls = @ + 1, !.pc = "act"]]

\* if err: self.id = old_id (react line 250, _react_batch_impl line 328)
RolledBack(s) == s.old_id

ReactEnter(s, msg, rec) ==
    IF Suppressed(s.flag, msg, s.seat)
    THEN [returned |-> TRUE, s |-> s]
    ELSE [returned |-> FALSE,
          s |-> [s EXCEPT !.flag = FALSE, !.old_id = s.id, !.id = NextId(s.id),
                          !.err = NoErr, !.attempt = 0, !.input_msg = msg,
                          !.recurse = rec, !.last_tx = <<>>, !.last_reply = NoneVal,
                          !.ncalls = @ + 1,
                          !.pc = "act"]]

\* old_id saved after the stamping loop instead of before it
BatchEnter_LateOldId(s, i) ==
    LET b == StampLoop(s.id, s.mode, Chunk(s.input_list, i),
                       i + 1 = NumBatches(Len(s.input_list)), 0)
    IN [s EXCEPT !.old_id = b.id, !.id = b.id, !.batch_data = b.batch_data,
                 !.err = NoErr, !.attempt = 0, !.chunk_i = i, !.last_tx = <<>>,
                 !.last_reply = NoneVal,
                 !.ncalls = @ + 1, !.intact = @ /\ b.intact, !.pc = "batch"]

\* ---- _react_batch_impl, lines 278-312: stamp chunk i of input_list
BatchEnter(s, i) ==
    LET n == NumBatches(Len(s.input_list))
        b == StampLoop(s.id, s.mode, Chunk(s.input_list, i), i + 1 = n, 0)
    IN [s EXCEPT !.old_id = s.id, !.id = b.id, !.batch_data = b.batch_data,
                 !.err = NoErr, !.attempt = 0, !.chunk_i = i, !.last_tx = <<>>,
                 !.last_reply = NoneVal,
                 !.ncalls = @ + 1, !.intact = @ /\ b.intact, !.pc = "batch"]

\* ---- react_batch, lines 264-268: a chunk returned value; next chunk or return
AfterChunk(s, value) ==
    IF HasNextStart(s.chunk_i, Len(s.input_list))
    THEN BatchEnter(s, s.chunk_i + 1)
    ELSE Finish(s, [kind |-> "returned", value |-> value, error |-> NoErr])

\* the outermost handler frame (react, or _react_batch_impl under react_batch) returns
Return(s, value) ==
    IF s.call = "react"
    THEN Finish(s, [kind |-> "returned", value |-> value, error |-> NoErr])
    ELSE AfterChunk(s, value)

\* ---- _process_reaction, lines 212-227, up to the follow-up request
ReachMsg(st) == [type |-> REACH, actor |-> st]

\* a malformed reply treated as a failed call
NoAction_RolledBack(s) == Return([s EXCEPT !.id = s.old_id], NoneVal)

\* lines 213-214: return None
NoAction(s) == Return(s, NoneVal)

ProcessReaction(s, r, rec) ==
    IF ~Valid(r) THEN NoAction(s)
    ELSE IF rec /\ r["type"] = REACH
    THEN IF "actor" \notin DOMAIN r THEN Raise(s, KeyError)
         ELSE IF r["actor"] = s.seat
         THEN LET e == ReactEnter(s, ReachMsg(s.seat), FALSE)
              IN IF e.returned
                 THEN Return([e.s EXCEPT !.flag = TRUE],
                             Put(r, "reach_dahai", Normalize(NoneVal)))
                 ELSE [e.s EXCEPT !.reaction = r]
         ELSE Return(s, r)
    ELSE Return(s, r)

\* a follow-up that forgets to arm the suppression
AfterFollowUp_NoFlag(s, reach_dahai) ==
    Return(s, Put(s.reaction, "reach_dahai", Normalize(reach_dahai)))

\* lines 221-225, after the follow-up react returned reach_dahai
AfterFollowUp(s, reach_dahai) ==
    Return([s EXCEPT !.flag = TRUE],
           Put(s.reaction, "reach_dahai", Normalize(reach_dahai)))

\* ---- the payload one attempt transmits
ActPayload(s) == <<[seq |-> s.id, data |-> ActData(s.mode, s.input_msg)]>>

Logged(s, kind, payload) ==
    [k \in 1..Len(payload) |->
        [call |-> s.ncalls, kind |-> kind, seq |-> payload[k].seq, data |-> payload[k].data]]

\* a retry loop that advances the counter again before each retry
AttemptFailed_Readvance(s, e, payload) ==
    LET s1 == [s EXCEPT !.err = e, !.attempt = @ + 1, !.last_tx = payload,
                        !.last_fail = e]
    IN IF s1.attempt < retries
       THEN [s1 EXCEPT !.id = NextId(s.id)]
       ELSE Raise([s1 EXCEPT !.id = s.old_id], e)

\* raise err
RaisedError(s) == s.err

\* except Exception as e: err = e; after the last attempt: roll back and raise
AttemptFailed(s, e, payload) ==
    LET s1 == [s EXCEPT !.err = e, !.attempt = @ + 1, !.last_tx = payload,
                        !.last_fail = e]
    IN IF s1.attempt < retries
       THEN s1
       ELSE Raise([s1 EXCEPT !.id = RolledBack(s1)], RaisedError(s1))

\* the attempt succeeded: err = None; break
AttemptOk(s, kind, payload, r) ==
    [s EXCEPT !.err = NoErr, !.attempt = @ + 1, !.last_tx = payload,
              !.last_fail = NoErr, !.last_reply = r,
              !.wire = @ \o Logged(s, kind, payload), !.sent = @ + Len(payload)]

\* ---- what the game engine and the remote service can hand to the session
Seats == {2}
Modes == {MJ4P, MJ3P, OtherMode}

Filler(i) == [type |-> "dahai", actor |-> i % 4, pai |-> i]
Nuki(st) == [type |-> NUKIDORA, actor |-> st, pai |-> 0]
OtherReach(st) == [type |-> REACH, actor |-> (st + 1) % 4]

Scores(n) == [j \in 1..n |-> 100 + j]
Tehais(n) == [j \in 1..n |-> <<j, j + 1>>]
WithField(m, k, v) == IF Len(v) = 0 THEN m ELSE Put(m, k, v)
StartKyoku(ns, nt) ==
    WithField(WithField([type |-> START_KYOKU, kyoku |-> 1], "scores", Scores(ns)),
              "tehais", Tehais(nt))
\* <<entries of scores, entries of tehais>>, 0 for an absent field
KyokuShapes == {<<4, 4>>, <<3, 3>>, <<0, 0>>, <<4, 0>>, <<2, 5>>, <<5, 4>>}

Specials(st) ==
    {ReachMsg(st), OtherReach(st), Nuki(st)}
        \cup {StartKyoku(sh[1], sh[2]) : sh \in KyokuShapes}

MkList(n, e, p) == [i \in 1..n |-> IF i = p THEN e ELSE Filler(i)]

AllLens ==
    {k * batch_size + d : k \in 0..(MaxChunks - 1), d \in {-1, 0, 1, 2}} \ {-1}
RichLens == {1, 2, batch_size + 1}
Positions(n) == {1, n, batch_size} \cap 1..n

PlainLists == {MkList(n, Filler(1), 1) : n \in AllLens}
RichLists(st) ==
    UNION {{MkList(n, e, p) : e \in Specials(st), p \in Positions(n)} : n \in RichLens}
\* long lists that open with the bot's own reach
EchoLists(st) ==
    {MkList((MaxChunks - 1) * batch_size + d, ReachMsg(st), 1) : d \in {1, 2}}
        \cup {<<ReachMsg(st), ReachMsg(st)>>}

Rich == sent < MaxRich
EventsNow == IF Rich THEN Specials(seat) \cup {Filler(1)} ELSE {Filler(1), ReachMsg(seat)}
ListsNow == IF Rich THEN PlainLists \cup RichLists(seat) \cup EchoLists(seat)
            ELSE {MkList(batch_size + 1, Filler(1), 1)}

Replies(st) ==
    {NoneVal, StrVal, [actor |-> st],
     [type |-> "dahai", actor |-> st, pai |-> 5],
     ReachMsg(st), OtherReach(st), [type |-> REACH]}

NoEntry ==
    [id |-> 0, flag |-> FALSE, mode |-> NoMode, model |-> "", n |-> 0, first |-> NoneVal]
\* the session as a call finds it: a call of n events, the first of them first,
\* or a game start, first holding its mode argument
Entry(n, first) ==
    [id |-> id, flag |-> ignore_next_turn_self_reach, mode |-> current_mode,
     model |-> current_model_name, n |-> n, first |-> first]

Init ==
    /\ id = -1
    /\ ignore_next_turn_self_reach = FALSE
    /\ current_mode = NoMode
    /\ current_model_name = ""
    /\ seat = -1
    /\ pc = "idle"
    /\ call = "none"
    /\ input_list = <<>>
    /\ chunk_i = 0
    /\ input_msg = NoneVal
    /\ recurse = TRUE
    /\ old_id = 0
    /\ err = NoErr
    /\ attempt = 0
    /\ batch_data = <<>>
    /\ reaction = NoneVal
    /\ entry = NoEntry
    /\ wire = <<>>
    /\ last_tx = <<>>
    /\ last_fail = NoErr
    /\ last_reply = NoneVal
    /\ ncalls = 0
    /\ intact = TRUE
    /\ result = NoResult
    /\ prev_seq = -1
    /\ sent = 0

Started == current_model_name # ""

\* ---- init_bot -> _init_bot_impl(mode), lines 150-166, up to the start_bot call
StartGame(st, mode) ==
    /\ pc = "idle"
    /\ current_mode' = mode
    /\ IF mode \in {MJ4P, MJ3P}
       THEN /\ current_model_name' =
                   (IF mode = MJ4P THEN mjapi_model_select_4p ELSE mjapi_model_select_3p)
            /\ seat' = st
            /\ pc' = "start"
            /\ result' = NoResult
       ELSE /\ UNCHANGED <<current_model_name, seat>>
            /\ pc' = "done"
            /\ result' = [kind |-> "raised", value |-> NoneVal, error |-> "ValueError"]
    /\ call' = "init_bot"
    /\ entry' = Entry(0, [mode |-> mode])
    /\ UNCHANGED <<id, ignore_next_turn_self_reach, input_list, chunk_i, input_msg, recurse,
                   old_id, err, attempt, batch_data, reaction, wire, last_tx, last_fail,
                   last_reply, ncalls, intact, prev_seq, sent>>

\* ---- self.mjapi.start_bot(...) returns; line 167: self.id = -1
StartOk ==
    /\ pc = "start"
    /\ id' = -1
    /\ prev_seq' = -1
    /\ sent' = 0
    /\ pc' = "done"
    /\ result' = [kind |-> "returned", value |-> NoneVal, error |-> NoErr]
    /\ UNCHANGED <<ignore_next_turn_self_reach, current_mode, current_model_name, seat,
                   call, input_list, chunk_i, input_msg, recurse, old_id, err, attempt,
                   batch_data, reaction, entry, wire, last_tx, last_fail, last_reply,
                   ncalls, intact>>

\* ---- self.mjapi.start_bot(...) raises e: no retry, line 167 is not reached
StartFail(e) ==
    /\ pc = "start"
    /\ pc' = "done"
    /\ result' = [kind |-> "raised", value |-> NoneVal, error |-> e]
    /\ UNCHANGED <<id, ignore_next_turn_self_reach, current_mode, current_model_name, seat,
                   call, input_list, chunk_i, input_msg, recurse, old_id, err, attempt,
                   batch_data, reaction, entry, wire, last_tx, last_fail, last_reply,
                   ncalls, intact, prev_seq, sent>>

\* ---- react(input_msg), lines 229-240, up to the first attempt
React(e) ==
    /\ pc = "idle" /\ Started /\ sent < MaxSent
    /\ entry' = Entry(1, e)
    /\ LET s0 == [Self EXCEPT !.call = "react", !.input_list = <<e>>]
           r == ReactEnter(s0, e, TRUE)
       IN Set(IF r.returned THEN Return(r.s, NoneVal) ELSE r.s)
    /\ UNCHANGED <<current_mode, current_model_name, seat, prev_seq>>

\* ---- react_batch(input_list), lines 254-265, up to the first attempt
\* a check that drops the echo whether or not the flag is set
Dropped_Unflagged(flag, list, st) ==
    IF Len(list) > 0 /\ IsSelfReach(list[1], st) THEN Tail(list) ELSE list

Dropped(flag, list, st) ==
    IF flag /\ Len(list) > 0 /\ IsSelfReach(list[1], st) THEN Tail(list) ELSE list

ReactBatch(list) ==
    /\ pc = "idle" /\ Started /\ sent < MaxSent
    /\ entry' = Entry(Len(list), IF Len(list) > 0 THEN list[1] ELSE NoneVal)
    /\ LET rest == Dropped(ignore_next_turn_self_reach, list, seat)
           flag1 == IF ignore_next_turn_self_reach /\ Len(list) > 0
                    THEN FALSE ELSE ignore_next_turn_self_reach
           s0 == [Self EXCEPT !.call = "react_batch", !.input_list = rest,
                              !.flag = flag1]
       IN Set(IF Len(rest) = 0
              THEN Finish(s0, [kind |-> "returned", value |-> NoneVal, error |-> NoErr])
              ELSE BatchEnter(s0, 0))
    /\ UNCHANGED <<current_mode, current_model_name, seat, prev_seq>>

\* ---- one attempt of self.mjapi.act(self.id, input_msg) raises e
ActFail(e) ==
    /\ pc = "act"
    /\ Set(AttemptFailed(Self, e, ActPayload(Self)))
    /\ UNCHANGED <<current_mode, current_model_name, seat, prev_seq, entry>>

\* ---- one attempt of self.mjapi.act succeeds with reply r; lines 252, 221-227
ActOk(r) ==
    /\ pc = "act"
    /\ LET s1 == AttemptOk(Self, "act", ActPayload(Self), r)
       IN Set(IF s1.recurse
              THEN ProcessReaction(s1, r, TRUE)
              ELSE AfterFollowUp(s1, Normalize(r)))
    /\ UNCHANGED <<current_mode, current_model_name, seat, prev_seq, entry>>

\* ---- one attempt of self.mjapi.batch(batch_data) raises e
BatchFail(e) ==
    /\ pc = "batch"
    /\ Set(AttemptFailed(Self, e, batch_data))
    /\ UNCHANGED <<current_mode, current_model_name, seat, prev_seq, entry>>

\* ---- one attempt of self.mjapi.batch succeeds with reply r; line 331
BatchOk(r) ==
    /\ pc = "batch"
    /\ Set(ProcessReaction(AttemptOk(Self, "batch", batch_data, r), r, TRUE))
    /\ UNCHANGED <<current_mode, current_model_name, seat, prev_seq, entry>>

\* ---- the caller takes the reaction, or catches the exception
Collect ==
    /\ pc = "done"
    /\ pc' = "idle"
    /\ prev_seq' = IF call # "init_bot" /\ Len(wire) > 0 THEN wire[Len(wire)].seq
                   ELSE prev_seq
    /\ call' = "none"
    /\ input_list' = <<>>
    /\ wire' = <<>>
    /\ ncalls' = 0
    /\ intact' = TRUE
    /\ result' = NoResult
    /\ entry' = NoEntry
    /\ last_tx' = <<>>
    /\ last_fail' = NoErr
    /\ last_reply' = NoneVal
    /\ UNCHANGED <<id, ignore_next_turn_self_reach, current_mode, current_model_name,
                   seat, chunk_i, input_msg, recurse, old_id, err, attempt, batch_data,
                   reaction, sent>>

Next ==
    \/ \E st \in Seats, mode \in Modes : StartGame(st, mode)
    \/ StartOk
    \/ \E e \in Errors : StartFail(e)
    \/ \E e \in EventsNow : React(e)
    \/ \E list \in ListsNow : ReactBatch(list)
    \/ \E e \in Errors : ActFail(e)
    \/ \E r \in Replies(seat) : ActOk(r)
    \/ \E e \in Errors : BatchFail(e)
    \/ \E r \in Replies(seat) : BatchOk(r)
    \/ Collect

Spec == Init /\ [][Next]_vars

\* ---- observations used by the properties
IsBatchEntry(a) == a.kind = "batch"
IsActEntry(a) == a.kind = "act"
\* the Actions the batch calls (the act calls) of this invocation transmitted
BatchWire == SelectSeq(wire, IsBatchEntry)
ActWire == SelectSeq(wire, IsActEntry)
\* the event without the override field
Strip(e) == [x \in (DOMAIN e) \ {"can_act"} |-> e[x]]
\* the fields no translation rule may touch
Key(e) == [x \in (DOMAIN e) \ {"can_act", "type", "scores", "tehais"} |-> e[x]]
InReact == call = "react"
InBatch == call = "react_batch"
Returned == pc = "done" /\ result.kind = "returned"
\* a react or react_batch invocation ended by raising the error of a remote call
TransportRaised ==
    /\ call \in {"react", "react_batch"}
    /\ pc = "done" /\ result.kind = "raised" /\ result.error \in Errors
\* the counter, T Actions after it was c
After(c, T) == IF T = 0 THEN c ELSE (c + T) % 256

\* ---- C1
\* C1: the seq values of the Actions of successful remote calls are consecutive
\* modulo 256 in transmission order, across invocations, batch chunks and reach
\* follow-ups; the first Action after game start carries seq 0; the events of a
\* react_batch list are transmitted in input order.
C1_SeqConsecutive ==
    /\ \A k \in 1..Len(wire) : wire[k].seq = (prev_seq + k) % 256
    /\ (Len(wire) > 0 /\ sent = Len(wire)) => wire[1].seq = 0
    /\ (pc = "idle" /\ sent > 0) => id = prev_seq
    /\ InBatch =>
          /\ Len(BatchWire) <= Len(input_list)
          /\ \A k \in 1..Len(BatchWire) : Key(BatchWire[k].data) = Key(input_list[k])

\* a second chunk is being retried after its first two attempts failed, the first
\* chunk and a reach follow-up were transmitted, and the seq values wrapped to 0
C1_Witness ==
    /\ InBatch /\ pc = "batch" /\ attempt = 2 /\ chunk_i = 1
    /\ Len(wire) = batch_size + 1
    /\ \E k \in 2..Len(wire) : wire[k].seq = 0

\* ---- C2
\* C2 as claimed: N events passed one at a time to react with no call failing
\* leave the counter at (initial + N) mod 256, whatever the events and replies.
\* Stated for one event from any reachable state (N = 1); the claim for N events
\* is this statement applied N times.
C2_Original ==
    (InReact /\ Returned) => id = (entry.id + 1) % 256

\* C2 amended: a react call that returns leaves the counter at
\* (initial + T) mod 256, T the number of Actions it transmitted: none when the
\* event is suppressed as the bot's own reach echo, else one, plus one when the
\* reply triggered the reach follow-up request; and from game start on the
\* counter is (T - 1) mod 256 for the T Actions transmitted so far.
C2_CounterCountsActions ==
    /\ (InReact /\ Returned) =>
          LET supp == entry.flag /\ IsSelfReach(input_list[1], seat)
              follow == "reach_dahai" \in DOMAIN result.value
              T == IF supp THEN 0 ELSE IF follow THEN 2 ELSE 1
          IN /\ Len(wire) = T
             /\ id = After(entry.id, T)
    /\ pc \in {"idle", "done"} => id = After(-1, sent)

\* a react call returned after its follow-up, and the counter wrapped from 254 to 0
C2_Witness ==
    /\ InReact /\ Returned /\ "reach_dahai" \in DOMAIN result.value
    /\ entry.id = 254 /\ id = 0

\* ---- C3
\* C3: when one remote call (an act, or a batch chunk of k events, 1 <= k <= 24)
\* fails on all 3 attempts, the counter is restored to the value it had before
\* that call's first advance, whatever k is, and the error is raised.
C3_FailedCallRestored ==
    [][ (pc \in {"act", "batch"} /\ pc' = "done" /\ result'.kind = "raised"
            /\ result'.error \in Errors) =>
          LET k == IF pc = "batch" THEN Len(batch_data) ELSE 1
          IN /\ attempt = 2
             /\ k \in 1..24
             /\ id' = After(entry.id, Len(wire))
             /\ id = (id' + k) % 256
             /\ wire' = wire ]_vars

\* a full chunk of 24 events, the first call of its invocation, failed and was raised
C3_Witness ==
    /\ TransportRaised /\ InBatch
    /\ Len(input_list) = 24 /\ Len(wire) = 0 /\ Len(last_tx) = 24
    /\ id = entry.id

\* ---- C4
\* C4 as claimed: every react or react_batch invocation that ends by raising a
\* transport failure leaves the counter at its value on entry.
C4_Original ==
    TransportRaised => id = entry.id

\* C4 amended: such an invocation leaves the counter at its value on entry
\* advanced by the Actions that the earlier remote calls of the invocation
\* transmitted (earlier chunks, the primary act before a failing follow-up);
\* only the advance of the failing remote call is rolled back.
C4_RollbackOfFailingCall ==
    TransportRaised =>
        /\ id = After(entry.id, Len(wire))
        /\ Len(wire) = 0 => id = entry.id
        /\ ncalls >= 1
        /\ \A k \in 1..Len(wire) : wire[k].call < ncalls

\* react_batch raised in its third chunk after two chunks were transmitted
C4_Witness ==
    /\ TransportRaised /\ InBatch
    /\ Len(wire) = 2 * batch_size /\ ncalls = 3
    /\ id = After(entry.id, 2 * batch_size)

\* ---- C5
\* the Actions a step added to the log, as they went over the wire
NewlySent ==
    [k \in 1..(Len(wire') - Len(wire)) |->
        [seq |-> wire'[Len(wire) + k].seq, data |-> wire'[Len(wire) + k].data]]

\* what C5 asks of one step
RetryStep ==
    pc \in {"act", "batch"} =>
        LET ok == Len(wire') > Len(wire)
            raised == pc' = "done" /\ result'.kind = "raised" /\ result'.error \in Errors
            retried == ~ok /\ ~raised
        IN /\ attempt < 3
           /\ attempt > 0 => (IF ok THEN NewlySent ELSE last_tx') = last_tx
           /\ ok => /\ pc' \in {"act", "batch"} => (ncalls' = ncalls + 1 /\ attempt' = 0)
                    /\ (pc' = "done" /\ result'.kind = "returned") =>
                          LET v == result'.value
                              r == last_reply'
                          IN \/ v = Normalize(r)
                             \/ /\ "reach_dahai" \in DOMAIN v
                                /\ \/ v["reach_dahai"] = Normalize(r)
                                   \/ v = Put(r, "reach_dahai", NoneVal)
           /\ raised => (attempt = 2 /\ result'.error = last_fail')
           /\ retried => /\ attempt < 2 /\ attempt' = attempt + 1
                         /\ pc' = pc /\ ncalls' = ncalls /\ id' = id
                         /\ last_fail' \in Errors

\* C5: a remote call is attempted at most 3 times; the attempts stop at the
\* first success, whose reply is the one processed; every attempt of one call
\* carries the same seq values and payload; an error is raised only after 3
\* consecutive failures and is the error of the last attempt.
C5_RetryPolicy == [][RetryStep]_vars

\* a batch call with two failed attempts behind it is about to be attempted again
C5_Witness ==
    /\ pc = "batch" /\ attempt = 2 /\ last_fail = "refused"
    /\ last_tx = batch_data /\ Len(batch_data) = batch_size

\* ---- C6
\* the chunking of a react_batch list of n events, as seen on the wire: a new
\* batch call starts exactly after every 24th event
Chunking(n) ==
    LET bw == BatchWire
        SizeOf(c) == Cardinality({k \in 1..n : bw[k].call = c})
    IN /\ Len(bw) = n
       /\ \A k \in 1..(n - 1) :
             /\ bw[k].call <= bw[k + 1].call
             /\ (bw[k].call = bw[k + 1].call) <=> (k % 24 # 0)
       /\ Cardinality({bw[k].call : k \in 1..n}) = (n + 23) \div 24
       /\ \A k \in 1..n :
             /\ k <= n - 24 => SizeOf(bw[k].call) = 24
             /\ Key(bw[k].data) = Key(input_list[k])
             /\ (current_mode # MJ3P \/ input_list[k]["type"] \notin {START_KYOKU, NUKIDORA})
                   => Strip(bw[k].data) = input_list[k]
       /\ n = 50 => <<SizeOf(bw[1].call), SizeOf(bw[25].call), SizeOf(bw[49].call)>>
                       = <<24, 24, 2>>

\* C6 as claimed: for a list with n >= 1 events left after the suppression check
\* and no failing call, ceil(n/24) batch calls are made, all but the last of 24
\* events, in list order, and the counter advances by n in total.
C6_Original ==
    (InBatch /\ Returned /\ Len(input_list) >= 1) =>
        /\ Chunking(Len(input_list))
        /\ id = (entry.id + Len(input_list)) % 256

\* C6 amended: the same chunking; the counter advances by n for the n events of
\* the batch calls and by one more for each reach follow-up request that a chunk
\* reply triggered (at most one per chunk).
C6_ChunkingAndCounter ==
    (InBatch /\ Returned /\ Len(input_list) >= 1) =>
        /\ Chunking(Len(input_list))
        /\ id = (entry.id + Len(input_list) + Len(ActWire)) % 256
        /\ Len(ActWire) <= (Len(input_list) + 23) \div 24

\* a list of 50 events was sent in three batch calls with no follow-up
C6_Witness ==
    /\ InBatch /\ Returned /\ Len(input_list) = 50
    /\ Len(wire) = 50 /\ wire[50].call = 3 /\ wire[48].call = 2 /\ wire[24].call = 1

\* ---- C7
\* the index of the first event of the final chunk of a list of n events
FinalFrom(n) == ((n - 1) \div 24) * 24 + 1

\* C7: no event of the final chunk carries a can_act = False override, the last
\* event of every non-final chunk carries can_act = False, and the override is
\* never written on the caller's event.
C7_OnlyFinalActionable ==
    /\ InBatch =>
          \A k \in 1..Len(BatchWire) :
              LET d == BatchWire[k].data
              IN /\ k >= FinalFrom(Len(input_list)) => "can_act" \notin DOMAIN d
                 /\ (k % 24 = 0 /\ k < FinalFrom(Len(input_list)))
                       => ("can_act" \in DOMAIN d /\ d["can_act"] = FALSE)
    /\ pc = "batch" =>
          \A j \in 1..Len(batch_data) :
              LET d == batch_data[j].data
                  k == chunk_i * 24 + j
              IN /\ k >= FinalFrom(Len(input_list)) => "can_act" \notin DOMAIN d
                 /\ (k % 24 = 0 /\ k < FinalFrom(Len(input_list)))
                       => ("can_act" \in DOMAIN d /\ d["can_act"] = FALSE)
    /\ \A k \in 1..Len(input_list) : "can_act" \notin DOMAIN input_list[k]
    /\ intact

\* in 3-player mode a start_kyoku closing the first of two chunks went out
\* trimmed and with the override, and the final chunk went out without one
C7_Witness ==
    /\ InBatch /\ Returned /\ current_mode = MJ3P /\ Len(input_list) = 25
    /\ input_list[24]["type"] = START_KYOKU
    /\ "can_act" \in DOMAIN wire[24].data /\ wire[24].data["can_act"] = FALSE
    /\ intact

\* ---- C8
\* what the claims expect on the wire for a nukidora event
KitaExpected(e) == IF current_mode = MJ3P THEN Put(e, "type", KITA) ELSE e

\* C8: every nukidora event handed to react or react_batch is transmitted with
\* type kita and all other fields unchanged in 3-player mode, and with type
\* nukidora in 4-player mode.
C8_NukidoraToKita ==
    current_mode \in {MJ3P, MJ4P} =>
        /\ (InReact /\ Len(wire) >= 1 /\ input_list[1]["type"] = NUKIDORA)
              => wire[1].data = KitaExpected(input_list[1])
        /\ InBatch =>
              \A k \in 1..Len(BatchWire) :
                  input_list[k]["type"] = NUKIDORA
                      => Strip(BatchWire[k].data) = KitaExpected(input_list[k])

\* ---- C9
\* C9: for a start_kyoku transmitted by react_batch in 3-player mode, a scores
\* (tehais) field of exactly 4 entries goes out as its first 3 entries, a field
\* of 3 or fewer entries or an absent field goes out unchanged, and the rule
\* changes nothing when applied to its own output; in 4-player mode the fields
\* go out unchanged whatever their length.
C9_StartKyokuTruncation ==
    (InBatch /\ current_mode \in {MJ3P, MJ4P}) =>
        \A k \in 1..Len(BatchWire) :
            LET src == input_list[k]
                d == BatchWire[k].data
            IN src["type"] = START_KYOKU =>
                 /\ d["type"] = START_KYOKU
                 /\ \A f \in {"scores", "tehais"} :
                       /\ f \notin DOMAIN src => f \notin DOMAIN d
                       /\ f \in DOMAIN src =>
                             /\ f \in DOMAIN d
                             /\ IF current_mode = MJ3P /\ Len(src[f]) = 4
                                THEN d[f] = <<src[f][1], src[f][2], src[f][3]>>
                                ELSE (current_mode = MJ4P \/ Len(src[f]) <= 3)
                                        => d[f] = src[f]
                 /\ current_mode = MJ3P => Translate3p(MJ3P, Strip(d)) = Strip(d)

\* in 3-player mode a start_kyoku with 4 scores and 4 hands went out with 3 and 3
C9_Witness ==
    /\ InBatch /\ current_mode = MJ3P /\ Len(wire) >= 1
    /\ input_list[1] = StartKyoku(4, 4)
    /\ wire[1].data["scores"] = Scores(3) /\ wire[1].data["tehais"] = Tehais(3)

\* ---- C10
\* C10: the event payload react(e) sends equals the event payload that
\* react_batch([e]) sends for the same event and mode.
C10_ReactSendsTranslated ==
    (InReact /\ Len(wire) >= 1) =>
        wire[1].data = StampMsg(current_mode, input_list[1], 0, 1, TRUE).msg

\* ---- C11
\* what C11 asks of the step that takes the reply of a successful primary call
\* (the act of react, the final chunk of react_batch) when the handler ends on it
MalformedReplyStep ==
    (/\ pc \in {"act", "batch"} /\ (pc = "act" => recurse)
     /\ Len(wire') > Len(wire) /\ pc' = "done"
     /\ ~Valid(last_reply')) =>
        /\ result' = [kind |-> "returned", value |-> NoneVal, error |-> NoErr]
        /\ ncalls' = ncalls
        /\ Len(wire') = Len(wire) + (IF pc = "batch" THEN Len(batch_data) ELSE 1)
        /\ id' = id
        /\ ignore_next_turn_self_reach' = ignore_next_turn_self_reach

\* C11: when the reply to a successful call is not a mapping or has no type
\* field, react and react_batch return no action without raising, without a
\* retry or a further remote call, without rolling back the counter and without
\* setting the suppression flag.
C11_MalformedReplyNoAction == [][MalformedReplyStep]_vars

\* react_batch returned no action on a mapping without a type field, with the
\* counter advanced by the 25 events it sent and the flag still unset
C11_Witness ==
    /\ InBatch /\ Returned /\ last_reply = [actor |-> seat]
    /\ result.value = NoneVal /\ Len(wire) = batch_size + 1
    /\ id = After(entry.id, batch_size + 1) /\ ~ignore_next_turn_self_reach

\* ---- C12
\* the reply is a valid reach by the bot's own seat
OwnReachReply(r) ==
    Valid(r) /\ r["type"] = REACH /\ "actor" \in DOMAIN r /\ r["actor"] = seat

\* C12: a react call whose reply is a valid reach by the bot's own seat sends
\* exactly one follow-up request {type: reach, actor: seat} with the next seq
\* value, returns the reply with a reach_dahai field equal to the normalized
\* reply to the follow-up (no action if that reply is malformed), and returns
\* with the suppression flag set; no other reply leads to a follow-up.
C12_SelfReachFollowUp ==
    (InReact /\ Returned /\ Len(wire) >= 1) =>
        LET v == result.value
        IN /\ Len(wire) <= 2
           /\ Len(wire) = 2 <=> "reach_dahai" \in DOMAIN v
           /\ Len(wire) = 1 => (~OwnReachReply(last_reply) /\ v = Normalize(last_reply))
           /\ Len(wire) = 2 =>
                 /\ [x \in (DOMAIN v) \ {"reach_dahai"} |-> v[x]] = ReachMsg(seat)
                 /\ wire[2].data = [type |-> REACH, actor |-> seat]
                 /\ wire[2].seq = (wire[1].seq + 1) % 256
                 /\ wire[2].kind = "act" /\ wire[2].call = 2 /\ ncalls = 2
                 /\ v["reach_dahai"] = (IF Valid(last_reply) THEN last_reply ELSE NoneVal)
                 /\ ignore_next_turn_self_reach

\* react returned a reach whose reach_dahai is the discard the follow-up got;
\* the follow-up carried seq 1 after the primary act's seq 0
C12_Witness ==
    /\ InReact /\ Returned /\ Len(wire) = 2 /\ ignore_next_turn_self_reach
    /\ last_reply = [type |-> "dahai", actor |-> seat, pai |-> 5]
    /\ result.value["reach_dahai"] = last_reply
    /\ wire[2].seq = 1

\* ---- C13
\* C13: when the suppression flag is set and the event passed to react is a
\* reach by the bot's own seat, react returns no action, makes no remote call,
\* leaves the counter unchanged, and clears the flag (so that a second such
\* event arriving right after it is transmitted).
C13_EchoConsumed ==
    (InReact /\ Returned /\ entry.flag /\ IsSelfReach(entry.first, seat)) =>
        /\ result.value = NoneVal
        /\ Len(wire) = 0 /\ ncalls = 0
        /\ id = entry.id
        /\ ~ignore_next_turn_self_reach

\* ---- C14
\* the call entered with en has a first event and it is the bot's own reach
FirstIsEcho(en) == en.n > 0 /\ IsSelfReach(en.first, seat)
\* this step enters react or react_batch
PublicEntry == pc = "idle" /\ call' \in {"react", "react_batch"}

\* C14 as claimed: once set, the flag stays set across every react or
\* react_batch call whose (first) event is not the bot's own reach echo, and is
\* cleared only when a matching echo is consumed.
C14_Original ==
    [][ /\ (PublicEntry /\ ignore_next_turn_self_reach /\ ~FirstIsEcho(entry'))
              => ignore_next_turn_self_reach'
        /\ (ignore_next_turn_self_reach /\ ~ignore_next_turn_self_reach')
              => (PublicEntry /\ FirstIsEcho(entry')) ]_vars

\* what the amended C14 asks of one step
FlagStep ==
    /\ (PublicEntry /\ ignore_next_turn_self_reach /\ entry'.n > 0 /\ ~FirstIsEcho(entry'))
          => ~ignore_next_turn_self_reach'
    /\ (PublicEntry /\ ignore_next_turn_self_reach /\ entry'.n = 0)
          => ignore_next_turn_self_reach'
    /\ (ignore_next_turn_self_reach /\ ~ignore_next_turn_self_reach')
          => (PublicEntry /\ entry'.n > 0)

\* C14 amended: once set, the flag stays set only until the next react or
\* react_batch call that is given an event: a call whose (first) event is not
\* the bot's own reach echo clears the flag on entry, before its first remote
\* call; react_batch with an empty list leaves it set; nothing but the entry of
\* a public call with at least one event ever clears it.
C14_FlagClearedByAnyEvent == [][FlagStep]_vars

\* a react_batch call that found the flag set and opens with another event is
\* sending its second chunk with the flag cleared
C14_Witness ==
    /\ InBatch /\ pc = "batch" /\ chunk_i = 1
    /\ entry.flag /\ entry.n = batch_size + 1 /\ ~FirstIsEcho(entry)
    /\ ~ignore_next_turn_self_reach

\* ---- C15
\* C15: in react_batch with the flag set only the first element is checked: if
\* it is the bot's own reach echo it is dropped (not transmitted, no counter
\* advance) and the flag is cleared; a self-reach event at a later position is
\* transmitted like any other event; if dropping leaves the list empty,
\* react_batch returns no action without any remote call.  Without the flag
\* nothing is dropped.
C15_OnlyFirstChecked ==
    InBatch =>
        LET drop == entry.flag /\ FirstIsEcho(entry)
            n == Len(input_list)
            bw == BatchWire
        IN /\ n = entry.n - (IF drop THEN 1 ELSE 0)
           /\ (~drop /\ n > 0) => input_list[1] = entry.first
           /\ (entry.flag /\ entry.n > 0 /\ Len(ActWire) = 0)
                 => ~ignore_next_turn_self_reach
           /\ n = 0 => /\ Returned /\ result.value = NoneVal
                       /\ Len(wire) = 0 /\ ncalls = 0 /\ id = entry.id
           /\ \A k \in 1..Len(bw) :
                 IsSelfReach(input_list[k], seat) => Strip(bw[k].data) = input_list[k]
           /\ Returned => /\ Len(bw) = n
                          /\ id = After(entry.id, n + Len(ActWire))

\* with the flag set, react_batch was given two reach events of the bot's own
\* seat: the first was dropped, the second went out with the next seq
C15_Witness ==
    /\ InBatch /\ Returned /\ entry.flag /\ entry.n = 2 /\ FirstIsEcho(entry)
    /\ input_list = <<ReachMsg(seat)>>
    /\ Len(wire) = 1 /\ wire[1].data = ReachMsg(seat)
    /\ wire[1].seq = After(entry.id, 1)
    /\ ~ignore_next_turn_self_reach

\* ---- C16
\* the attempts of a react call made so far, counting 3 for a finished call
Effort(nc, at) == 3 * nc + at

\* what C16 asks of one step of a react call: it ends the call, or it stays in
\* the call with more effort spent, and the effort is bounded by 2 calls of 3
\* attempts; the reply to the follow-up ends the call
DepthOneStep ==
    (call = "react" /\ pc = "act") =>
        /\ ncalls \in 1..2 /\ attempt \in 0..2
        /\ (ncalls = 2) = ~recurse
        /\ \/ pc' = "done" /\ result'.kind \in {"returned", "raised"}
           \/ /\ pc' = "act" /\ call' = "react"
              /\ Effort(ncalls', attempt') > Effort(ncalls, attempt)
              /\ Effort(ncalls', attempt') <= Effort(2, 2)
        /\ (~recurse /\ Len(wire') > Len(wire)) =>
              /\ pc' = "done" /\ result'.kind = "returned"
              /\ Len(wire') = 2 /\ ncalls' = 2
              /\ result'.value["reach_dahai"] = Normalize(last_reply')

\* C16: the reach follow-up is capped at depth 1: the reply to the follow-up
\* request never triggers another follow-up, even when it is itself a reach by
\* the bot's own seat, so one react call performs at most 2 remote operations
\* (at most 6 attempts) and ends, by returning or by raising, after at most 6
\* attempt steps.
C16_FollowUpDepthOne == [][DepthOneStep]_vars

\* the follow-up was answered with a reach by the bot's own seat and react
\* returned it as reach_dahai after 2 remote operations, with no third request
C16_Witness ==
    /\ InReact /\ Returned /\ ncalls = 2 /\ Len(wire) = 2
    /\ last_reply = ReachMsg(seat)
    /\ result.value["reach_dahai"] = ReachMsg(seat)
    /\ "reach_dahai" \notin DOMAIN result.value["reach_dahai"]

\* ---- C17
\* the step that takes the reply of a successful non-final chunk
NonFinalReplyStep ==
    /\ call = "react_batch" /\ pc = "batch"
    /\ HasNextStart(chunk_i, Len(input_list))
    /\ Len(wire') > Len(wire)

\* C17: the replies to all chunks but the final one are discarded: whatever the
\* remote service returns for a non-final chunk, it causes no additional remote
\* call, no extra counter advance and no change of the suppression flag (the
\* next chunk is stamped and sent next), and the value react_batch returns
\* depends only on the final chunk's reply.
C17_NonFinalRepliesDiscarded ==
    [][ NonFinalReplyStep =>
          /\ pc' = "batch" /\ chunk_i' = chunk_i + 1
          /\ ncalls' = ncalls + 1
          /\ Len(wire') = Len(wire) + batch_size
          /\ id' = After(id, Len(batch_data'))
          /\ ignore_next_turn_self_reach' = ignore_next_turn_self_reach ]_vars

\* ---- C18
\* C18 as claimed: in every session state from game start on, the state right
\* after game start and the state after a rollback included, the stored counter
\* is in 0..255.
C18_Original ==
    (Started /\ pc # "start" /\ ~(call = "init_bot" /\ result.kind = "raised"))
        => id \in 0..255

\* C18 amended: the stored counter is in -1..255; it is -1 from construction and
\* from game start until the first Action is transmitted (also after a rollback
\* of the first call), and in 0..255 in every other state; every seq value put
\* in an Action is in 0..255.
C18_CounterRange ==
    /\ id \in -1..255
    /\ pc \in {"act", "batch"} => (id \in 0..255 /\ old_id \in -1..255)
    /\ pc \in {"idle", "done"} => ((id = -1) <=> (sent = 0))
    /\ \A k \in 1..Len(wire) : wire[k].seq \in 0..255
    /\ \A k \in 1..Len(batch_data) : batch_data[k].seq \in 0..255

\* the first call of a game, a chunk of 24 events, failed 3 times and the
\* counter was rolled back to -1
C18_Witness ==
    /\ Started /\ TransportRaised /\ InBatch
    /\ sent = 0 /\ Len(last_tx) = batch_size /\ last_tx[1].seq = 0
    /\ id = -1

\* ---- C19
\* C19: starting a game with a mode other than 3-player or 4-player raises a
\* configuration error at once: no remote call is made, nothing is retried, and
\* the stored mode, model name and counter are left as they were.
C19_UnsupportedModeNoEffect ==
    (pc = "done" /\ call = "init_bot" /\ entry.first["mode"] \notin {MJ4P, MJ3P}) =>
        /\ result.kind = "raised" /\ result.error = "ValueError"
        /\ Len(wire) = 0 /\ ncalls = 0 /\ attempt = 0
        /\ current_model_name = entry.model
        /\ id = entry.id
        /\ current_mode = entry.mode

\* ---- C20
\* C20: a react or react_batch invocation that ends by raising a transport
\* failure leaves the suppression flag equal to its value when the invocation
\* was entered, so that the caller can repeat the failed call from the same
\* session state.
C20_FlagRestoredOnFailure ==
    TransportRaised => ignore_next_turn_self_reach = entry.flag
====
